---------------------------- MODULE Spec2Model ----------------------------
(***************************************************************************)
(* A model of src/app.py: the two traversals of an accessibility tree      *)
(* (display_tree_structure, count_elements) executed frame by frame on a   *)
(* heap of Python dicts, and the Streamlit script run around them (main,   *)
(* render_sidebar, render_main_content, get_accessibility_data).           *)
(***************************************************************************)
EXTENDS Integers, Sequences, FiniteSets, TLC

VARIABLES
    nodes,      \* the heap: nodes[k] is the dict object with identity k
    stack,      \* the Python call stack of the running traversal, top last
    out,        \* the Streamlit elements emitted by display_tree_structure
    counts,     \* the accumulator dict of count_elements
    status,     \* "idle" | "running" | "returned" | "raised"
    exc,        \* the exception type when status = "raised"
    call,       \* the arguments of the outermost traversal call
    base,       \* the accumulator as it was handed to the first call of a thread
    visited,    \* the roots counted into the accumulator since then, in order
    pc,         \* position of the script run of main()
    session,    \* widget state and what get_running_apps returns
    data,       \* the AppAccessibilityData of the current run
    page,       \* the elements the current script run has put on the page
    runs,       \* number of script runs so far
    outcome     \* how the capture step of the current run ended

vars == <<nodes, stack, out, counts, status, exc, call, base, visited,
          pc, session, data, page, runs, outcome>>

travVars == <<nodes, stack, out, counts, status, exc, call, base, visited>>
appVars == <<pc, session, data, page, runs, outcome>>

---------------------------------------------------------------------------
(* Bounds of the model.                                                    *)

MaxNodes == 3       \* nodes of a generated tree
MaxDepthArg == 2    \* max_depth and current_depth of a direct call go up to this
MaxCalls == 2       \* calls of count_elements threading one accumulator
MaxRuns == 3        \* script runs of the application

---------------------------------------------------------------------------
(* Python values.  t is the type tag; s, i, l carry the payload.           *)

Val(t, s, i, l) == [t |-> t, s |-> s, i |-> i, l |-> l]

Absent == Val("absent", "", 0, <<>>)        \* the key is not in the dict
VNone == Val("none", "", 0, <<>>)
VStr(s) == Val("str", s, 0, <<>>)
VInt(i) == Val("int", "", i, <<>>)
VBool(b) == Val("bool", "", IF b THEN 1 ELSE 0, <<>>)
VList(l) == Val("list", "", 0, l)
VRef(k) == Val("dict", "", k, <<>>)          \* a reference to the dict nodes[k]
Image == Val("image", "", 0, <<>>)           \* a PIL ImageFile

Keys == {"role", "title", "value", "bounds", "enabled",
         "description", "help", "subrole", "children"}

EmptyDict == [k \in Keys |-> Absent]

\* dict.get(key, default)
Get(d, key, default) == IF d[key] = Absent THEN default ELSE d[key]

\* bool(v)
Truthy(v) ==
    CASE v.t = "absent" -> FALSE
      [] v.t = "none" -> FALSE
      [] v.t = "str" -> v.s # ""
      [] v.t = "int" -> v.i # 0
      [] v.t = "bool" -> v.i # 0
      [] v.t = "list" -> Len(v.l) > 0
      [] v.t = "dict" -> \E k \in Keys : nodes[v.i][k] # Absent
      [] v.t = "image" -> TRUE

\* str(v), as an f-string formats it
PyStr(v) ==
    CASE v.t = "str" -> v.s
      [] v.t = "int" -> ToString(v.i)
      [] v.t = "bool" -> IF v.i # 0 THEN "True" ELSE "False"
      [] v.t = "none" -> "None"
      [] v.t = "list" -> "[..]"
      [] v.t = "dict" -> "{..}"
      [] v.t = "absent" -> ""
      [] v.t = "image" -> "<image>"

\* isinstance(v, dict)
IsDict(v) == v.t = "dict"


---------------------------------------------------------------------------
(* The trees the traversals are run on.  A tree of n nodes is given by a   *)
(* parent function (node k hangs under a node of smaller identity), the    *)
(* children of a node being listed in ascending identity.                  *)

Roles == {"Button", "Window"}
RoleChoices == {Absent} \cup {VStr(r) : r \in Roles}

RECURSIVE Ascending(_)
Ascending(S) ==
    IF S = {} THEN <<>>
    ELSE LET m == CHOOSE x \in S : \A y \in S : x <= y
         IN <<m>> \o Ascending(S \ {m})

MkNode(role, children) ==
    [EmptyDict EXCEPT !["role"] = role, !["children"] = children]

ShapeHeap(n, parent, roles) ==
    [k \in 1..n |->
        LET kids == Ascending({j \in 2..n : parent[j] = k})
        IN MkNode(roles[k],
                  IF kids = <<>> THEN Absent
                  ELSE VList([j \in 1..Len(kids) |-> VRef(kids[j])]))]

RoleHeaps ==
    UNION {{ShapeHeap(n, parent, roles) :
                parent \in {p \in [2..n -> 1..n] : \A j \in 2..n : p[j] < j},
                roles \in [1..n -> RoleChoices]} : n \in 1..MaxNodes}

\* Trees that leave the declared shape: 'children' present but None or empty,
\* or holding elements that are not dicts.
Strays == {VNone, VStr("x"), VInt(7)}

DefectHeaps ==
    {<<MkNode(r, c)>> : r \in RoleChoices, c \in {VNone, VList(<<>>)}}
    \cup {<<MkNode(VStr("Window"), VList(<<x>>))>> : x \in Strays}
    \cup {<<MkNode(VStr("Window"), VList(<<VRef(2), x>>)), MkNode(r, Absent)>> :
              x \in Strays, r \in RoleChoices}
    \cup {<<MkNode(VStr("Window"), VList(<<VRef(2)>>)), MkNode(r, VNone)>> :
              r \in RoleChoices}

\* Single nodes that carry the attributes a section displays.
TitleChoices == {Absent, VStr(""), VStr("OK"), VStr("5")}
ValueChoices == {Absent, VNone, VStr(""), VStr("OK"), VInt(0), VInt(5),
                 VBool(FALSE), VBool(TRUE)}
EnabledChoices == {Absent, VNone, VBool(FALSE), VBool(TRUE)}
OtherChoices == {Absent, VStr("d")}

AttrHeaps ==
    {<<[EmptyDict EXCEPT !["role"] = r, !["title"] = t, !["value"] = v,
                         !["enabled"] = e, !["bounds"] = o,
                         !["description"] = o, !["help"] = o,
                         !["subrole"] = o]>> :
        r \in {Absent, VStr("Button")}, t \in TitleChoices, v \in ValueChoices,
        e \in EnabledChoices, o \in OtherChoices}

Heaps == RoleHeaps \cup DefectHeaps \cup AttrHeaps

---------------------------------------------------------------------------
(* display_tree_structure and count_elements, one Python frame at a time.  *)

Item(kind, text, expanded) == [kind |-> kind, text |-> text, expanded |-> expanded]
Text(s) == Item("text", s, FALSE)
Opt(cond, item) == IF cond THEN <<item>> ELSE <<>>

Frame(fn, node, max_depth, depth) ==
    [fn |-> fn, node |-> node, max_depth |-> max_depth, depth |-> depth,
     pc |-> "enter", i |-> 1]

Top == stack[Len(stack)]
Popped == SubSeq(stack, 1, Len(stack) - 1)

\* A frame returns: the caller resumes, or the outermost call has returned.
Return ==
    /\ stack' = Popped
    /\ status' = IF Len(stack) = 1 THEN "returned" ELSE status
    /\ exc' = exc

\* An exception no frame catches unwinds the whole stack.
Raise(type) ==
    /\ stack' = <<>>
    /\ status' = "raised"
    /\ exc' = type

\* The guard with 'and' in place of 'or'.
DisplayGuardAnd(tree, max_depth, current_depth) ==
    current_depth > max_depth /\ ~Truthy(tree)

\* if current_depth > max_depth or not tree: return
DisplayGuard(tree, max_depth, current_depth) ==
    current_depth > max_depth \/ ~Truthy(tree)

\* The expander of one node and the st.text lines of its two columns
\* (the label is written without its leading pictogram).
DisplaySection(d, current_depth) ==
    LET role == Get(d, "role", VStr("Unknown"))
        title == Get(d, "title", VStr(""))
        value == Get(d, "value", VStr(""))
    IN  <<Item("expander",
               PyStr(role) \o (IF Truthy(title) THEN " - " \o PyStr(title) ELSE ""),
               current_depth < 2)>>
        \o Opt(Truthy(title), Text("Title: " \o PyStr(title)))
        \o Opt(Truthy(value) /\ VStr(PyStr(value)) # title,
               Text("Value: " \o PyStr(value)))
        \o Opt(Truthy(Get(d, "bounds", VNone)),
               Text("Bounds: " \o PyStr(d["bounds"])))
        \o Opt(Get(d, "enabled", VNone) # VNone,
               Text("Enabled: " \o PyStr(d["enabled"])))
        \o Opt(Truthy(Get(d, "description", VNone)),
               Text("Description: " \o PyStr(d["description"])))
        \o Opt(Truthy(Get(d, "help", VNone)),
               Text("Help: " \o PyStr(d["help"])))
        \o Opt(Truthy(Get(d, "subrole", VNone)),
               Text("Subrole: " \o PyStr(d["subrole"])))

\* Entry of display_tree_structure up to the start of the loop over children.
DisplayEnter ==
    /\ status = "running" /\ stack # <<>>
    /\ Top.fn = "display" /\ Top.pc = "enter"
    /\ IF DisplayGuard(Top.node, Top.max_depth, Top.depth)
       THEN Return /\ out' = out
       ELSE IF ~IsDict(Top.node)
       THEN Raise("AttributeError") /\ out' = out      \* tree.get on a non-dict
       ELSE LET d == nodes[Top.node.i]
                children == Get(d, "children", VList(<<>>))
            IN  IF Truthy(children)
                THEN /\ out' = out \o DisplaySection(d, Top.depth)
                                 \o <<Text("Children: " \o ToString(Len(children.l)))>>
                     /\ stack' = [stack EXCEPT ![Len(stack)].pc = "loop"]
                     /\ UNCHANGED <<status, exc>>
                ELSE /\ out' = out \o DisplaySection(d, Top.depth)
                     /\ Return
    /\ UNCHANGED <<nodes, counts, call, base, visited, appVars>>

\* for i, child in enumerate(children): display_tree_structure(child, ...)
DisplayNextChild ==
    /\ status = "running" /\ stack # <<>>
    /\ Top.fn = "display" /\ Top.pc = "loop"
    /\ LET children == nodes[Top.node.i]["children"].l
       IN  IF Top.i > Len(children)
           THEN Return
           ELSE /\ stack' = Append([stack EXCEPT ![Len(stack)].i = Top.i + 1],
                                   Frame("display", children[Top.i],
                                         Top.max_depth, Top.depth + 1))
                /\ UNCHANGED <<status, exc>>
    /\ UNCHANGED <<nodes, out, counts, call, base, visited, appVars>>

\* counts.get(role, 0)
Lookup(c, r) == IF r \in DOMAIN c THEN c[r] ELSE 0

\* counts[role] = n
Put(c, r, n) == [x \in DOMAIN c \cup {r} |-> IF x = r THEN n ELSE c[x]]

\* The accumulator replaced by a new dict whatever is handed in.
CountsInitFresh(acc) == <<>>

\* if counts is None: counts = {}
CountsInit(acc) == IF acc.none THEN <<>> ELSE acc.d

\* The count set to 1 instead of incremented.
CountVisitReset(d, c) ==
    LET role == PyStr(Get(d, "role", VStr("Unknown")))
    IN  [node |-> d, counts |-> Put(c, role, 1)]

\* node.pop('role', 'Unknown') in place of node.get: the key leaves the node.
CountVisitPop(d, c) ==
    LET role == PyStr(Get(d, "role", VStr("Unknown")))
    IN  [node |-> [d EXCEPT !["role"] = Absent],
         counts |-> Put(c, role, Lookup(c, role) + 1)]

\* role = node.get('role', 'Unknown'); counts[role] = counts.get(role, 0) + 1
\* The node is read, the accumulator is written.
CountVisit(d, c) ==
    LET role == PyStr(Get(d, "role", VStr("Unknown")))
    IN  [node |-> d, counts |-> Put(c, role, Lookup(c, role) + 1)]

\* Entry of count_elements up to the start of the loop over children.
CountEnter ==
    /\ status = "running" /\ stack # <<>>
    /\ Top.fn = "count" /\ Top.pc = "enter"
    /\ IF ~IsDict(Top.node)
       THEN Return /\ UNCHANGED <<nodes, counts>>
       ELSE LET k == Top.node.i
                r == CountVisit(nodes[k], counts)
                children == Get(r.node, "children", VList(<<>>))
            IN  /\ nodes' = [nodes EXCEPT ![k] = r.node]
                /\ counts' = r.counts
                /\ IF children.t # "list"
                   THEN Raise("TypeError")      \* iterating None
                   ELSE /\ stack' = [stack EXCEPT ![Len(stack)].pc = "loop"]
                        /\ UNCHANGED <<status, exc>>
    /\ UNCHANGED <<out, call, base, visited, appVars>>

\* for child in node.get('children', []): count_elements(child, counts)
CountNextChild ==
    /\ status = "running" /\ stack # <<>>
    /\ Top.fn = "count" /\ Top.pc = "loop"
    /\ LET children == Get(nodes[Top.node.i], "children", VList(<<>>)).l
       IN  IF Top.i > Len(children)
           THEN Return
           ELSE /\ stack' = Append([stack EXCEPT ![Len(stack)].i = Top.i + 1],
                                   Frame("count", children[Top.i], 0, 0))
                /\ UNCHANGED <<status, exc>>
    /\ UNCHANGED <<nodes, out, counts, call, base, visited, appVars>>

---------------------------------------------------------------------------
(* Direct calls of the two functions, with every argument a caller can     *)
(* pass.                                                                   *)

Call(fn, tree, max_depth, current_depth, no_acc) ==
    [fn |-> fn, tree |-> tree, max_depth |-> max_depth,
     current_depth |-> current_depth, no_acc |-> no_acc]

NoCall == Call("none", VNone, 0, 0, TRUE)

Preset == [r \in {"Button", "Link"} |-> IF r = "Button" THEN 2 ELSE 1]

\* display_tree_structure(tree, max_depth, current_depth)
CallDisplay ==
    /\ pc = "off" /\ status = "idle"
    /\ \E tree \in {VNone, VRef(1)}, max_depth \in -1..MaxDepthArg,
          current_depth \in 0..MaxDepthArg :
          /\ call' = Call("display", tree, max_depth, current_depth, TRUE)
          /\ stack' = <<Frame("display", tree, max_depth, current_depth)>>
    /\ status' = "running" /\ exc' = ""
    /\ out' = <<>> /\ counts' = <<>> /\ base' = <<>> /\ visited' = <<>>
    /\ UNCHANGED <<nodes, appVars>>

\* count_elements(node) and count_elements(node, counts) on a new accumulator
CallCount ==
    /\ pc = "off" /\ status = "idle"
    /\ \E node \in {VNone} \cup {VRef(k) : k \in DOMAIN nodes},
          acc \in {[none |-> TRUE, d |-> <<>>], [none |-> FALSE, d |-> Preset]} :
          /\ call' = Call("count", node, 0, 0, acc.none)
          /\ stack' = <<Frame("count", node, 0, 0)>>
          /\ counts' = CountsInit(acc)
          /\ base' = acc.d
          /\ visited' = <<node>>
    /\ status' = "running" /\ exc' = ""
    /\ out' = <<>>
    /\ UNCHANGED <<nodes, appVars>>

\* count_elements(node, counts) with the mapping an earlier call returned
CallCountAgain ==
    /\ pc = "off" /\ status = "returned" /\ call.fn = "count"
    /\ Len(visited) < MaxCalls
    /\ \E node \in {VRef(k) : k \in DOMAIN nodes} :
          /\ call' = Call("count", node, 0, 0, FALSE)
          /\ stack' = <<Frame("count", node, 0, 0)>>
          /\ visited' = Append(visited, node)
    /\ counts' = CountsInit([none |-> FALSE, d |-> counts])
    /\ status' = "running" /\ exc' = ""
    /\ UNCHANGED <<nodes, out, base, appVars>>


\* sum(element_counts.values())
RECURSIVE SumValues(_)
SumValues(c) ==
    IF DOMAIN c = {} THEN 0
    ELSE LET r == CHOOSE x \in DOMAIN c : TRUE
         IN c[r] + SumValues([x \in DOMAIN c \ {r} |-> c[x]])

---------------------------------------------------------------------------
(* The Streamlit script: one run of main() from top to bottom, started by  *)
(* the first page load, by a widget the user touches, or by st.rerun().    *)

SliderMin == 1
SliderMax == 5
SliderDefault == 3

AppLists == {<<>>, <<"Finder">>, <<"Finder", "Safari">>}

\* What the capture library can hand back for a visible application.
AppHeaps ==
    { <<[MkNode(VStr("Button"), VList(<<>>)) EXCEPT !["title"] = VStr("OK")]>>,
      <<MkNode(VStr("Window"), VList(<<VRef(2), VRef(3)>>)),
        MkNode(VStr("Button"), Absent), MkNode(Absent, Absent)>>,
      <<MkNode(VStr("Window"), VNone)>>,
      <<EmptyDict>> }

\* Messages of the exceptions the capture library raises.
Messages == {"", "no window",
             "Command 'screencapture' returned non-zero exit status 1"}

\* "returned non-zero exit status 1" in error
HasExitStatus(msg) ==
    msg = "Command 'screencapture' returned non-zero exit status 1"

Session(apps, selected_app, max_tree_depth, show_json, auto_refresh) ==
    [apps |-> apps, selected_app |-> selected_app,
     max_tree_depth |-> max_tree_depth, show_json |-> show_json,
     auto_refresh |-> auto_refresh]

NoSession == Session(<<>>, "", SliderDefault, FALSE, FALSE)

\* AppAccessibilityData(tree, screenshot, segmented, error)
AppAccessibilityData(tree, screenshot, segmented, error) ==
    [tree |-> tree, screenshot |-> screenshot, segmented |-> segmented,
     error |-> error]

NoData == AppAccessibilityData(VNone, VNone, VNone, VNone)

Elem(kind, text) == [kind |-> kind, text |-> text]

\* A script run begins: the page is rebuilt from nothing.
BeginRun ==
    /\ runs < MaxRuns
    /\ runs' = runs + 1
    /\ pc' = "main"
    /\ page' = <<>> /\ data' = NoData /\ outcome' = "none"
    /\ nodes' = <<>> /\ stack' = <<>> /\ out' = <<>> /\ counts' = <<>>
    /\ status' = "idle" /\ exc' = "" /\ call' = NoCall
    /\ UNCHANGED <<base, visited>>

\* The first load of the page.
FirstLoad ==
    /\ pc = "start"
    /\ BeginRun
    /\ UNCHANGED session

\* The user touches a widget of the sidebar once the script has ended (or
\* while st.rerun() is pending): Streamlit runs the script again.
UserInput ==
    /\ pc \in {"done", "stopped", "crashed", "rerun"}
    /\ BeginRun
    /\ \E selected_app \in {session.apps[j] : j \in 1..Len(session.apps)} \cup {""},
          max_tree_depth \in SliderMin..SliderMax,
          show_json \in BOOLEAN, auto_refresh \in BOOLEAN :
          /\ session' = Session(session.apps, selected_app, max_tree_depth,
                                show_json, auto_refresh)
          /\ pc = "rerun" => session' # session

\* st.rerun() takes effect: the script starts over with the same widgets.
Rerun ==
    /\ pc = "rerun"
    /\ BeginRun
    /\ UNCHANGED session

\* main(): set_page_config, title, markdown
Main ==
    /\ pc = "main"
    /\ page' = page \o <<Elem("title", "MacOS App Accessibility Browser"),
                         Elem("markdown", "Browse running macOS applications")>>
    /\ pc' = "sidebar"
    /\ UNCHANGED <<travVars, session, data, runs, outcome>>

\* render_sidebar(): the list of running apps, st.stop() when it is empty,
\* the selectbox (the first app unless the user's choice is still listed)
\* and the three options.
RenderSidebar ==
    /\ pc = "sidebar"
    /\ \E apps \in AppLists :
          IF apps = <<>>
          THEN /\ page' = page \o <<Elem("header", "Select Application"),
                                    Elem("error", "No applications found.")>>
               /\ session' = [session EXCEPT !.apps = apps]
               /\ pc' = "stopped"
          ELSE /\ page' = page \o <<Elem("header", "Select Application"),
                                    Elem("header", "Options")>>
               /\ session' = [session EXCEPT
                     !.apps = apps,
                     !.selected_app =
                         IF \E j \in 1..Len(apps) : apps[j] = session.selected_app
                         THEN session.selected_app ELSE apps[1]]
               /\ pc' = "settings"
    /\ UNCHANGED <<travVars, data, runs, outcome>>

\* if settings.auto_refresh: time.sleep(0.1); st.rerun()
\* st.rerun() ends the script run where it stands.
AutoRefresh ==
    /\ pc = "settings"
    /\ pc' = IF session.auto_refresh THEN "rerun" ELSE "content"
    /\ UNCHANGED <<travVars, session, data, page, runs, outcome>>

\* render_main_content() up to the capture
RenderMainContent ==
    /\ pc = "content"
    /\ IF session.selected_app = ""
       THEN /\ page' = Append(page, Elem("info", "Select an application"))
            /\ pc' = "footer"
       ELSE /\ page' = Append(page, Elem("header", "App: '" \o session.selected_app \o "'"))
            /\ pc' = "capture"
    /\ UNCHANGED <<travVars, session, data, runs, outcome>>

\* get_accessibility_data(): no bundle
CaptureNoBundle ==
    /\ pc = "capture"
    /\ data' = AppAccessibilityData(VNone, VNone, VNone,
                  VStr("Could not find bundle for " \o session.selected_app))
    /\ outcome' = "no_bundle"
    /\ pc' = "captured"
    /\ UNCHANGED <<travVars, session, page, runs>>

\* get_accessibility_data(): get_app_bundle or get_tree_screenshot raises
CaptureRaises ==
    /\ pc = "capture"
    /\ \E msg \in Messages :
          data' = AppAccessibilityData(VNone, VNone, VNone, VStr(msg))
    /\ outcome' = "raised"
    /\ pc' = "captured"
    /\ UNCHANGED <<travVars, session, page, runs>>

\* get_accessibility_data(): the library returns tree and screenshots
CaptureSucceeds ==
    /\ pc = "capture"
    /\ \E heap \in AppHeaps, tree \in {VNone, VRef(1)},
          screenshot \in {VNone, Image}, segmented \in {VNone, Image} :
          /\ nodes' = heap
          /\ data' = AppAccessibilityData(tree, screenshot, segmented, VNone)
    /\ outcome' = "ok"
    /\ pc' = "captured"
    /\ UNCHANGED <<stack, out, counts, status, exc, call, base, visited,
                   session, page, runs>>

\* if error: ... st.error, st.info   else: st.tabs
ShowResult ==
    /\ pc = "captured"
    /\ IF Truthy(data.error)
       THEN /\ page' = page \o
                  <<Elem("error", "Error analyzing '" \o session.selected_app \o "': "
                           \o (IF HasExitStatus(data.error.s)
                               THEN "Make sure there is a visible app window."
                               ELSE data.error.s)),
                    Elem("info", "Troubleshooting tips")>>
            /\ pc' = "footer"
       ELSE /\ page' = Append(page, Elem("tabs", "Screenshots|Tree Structure|Raw JSON|Summary"))
            /\ pc' = "tab_screenshots"
    /\ UNCHANGED <<travVars, session, data, runs, outcome>>

\* render_tab_screenshots()
RenderTabScreenshots ==
    /\ pc = "tab_screenshots"
    /\ page' = page \o <<Elem("subheader", "Application Screenshots")>>
          \o (IF Truthy(data.screenshot)
              THEN <<Elem("image", session.selected_app \o " - Original"),
                     Elem("download", session.selected_app \o "_original.png")>>
              ELSE <<Elem("warning", "No screenshot available")>>)
          \o (IF Truthy(data.segmented)
              THEN <<Elem("image", session.selected_app \o " - UI Elements Highlighted"),
                     Elem("download", session.selected_app \o "_segmented.png")>>
              ELSE <<Elem("warning", "No segmented screenshot available")>>)
    /\ pc' = "tab_tree"
    /\ UNCHANGED <<travVars, session, data, runs, outcome>>

\* render_tab_tree(): display_tree_structure(tree, max_depth) when tree
RenderTabTree ==
    /\ pc = "tab_tree"
    /\ IF Truthy(data.tree)
       THEN /\ page' = page \o <<Elem("subheader", "Accessibility Tree Structure"),
                                 Elem("markdown", "Interactive Tree Explorer"),
                                 Elem("info", "Expand/collapse sections")>>
            /\ call' = Call("display", data.tree, session.max_tree_depth, 0, TRUE)
            /\ stack' = <<Frame("display", data.tree, session.max_tree_depth, 0)>>
            /\ status' = "running"
            /\ pc' = "in_display"
       ELSE /\ page' = page \o <<Elem("subheader", "Accessibility Tree Structure"),
                                 Elem("warning", "No accessibility tree available")>>
            /\ pc' = "tab_json"
            /\ UNCHANGED <<call, stack, status>>
    /\ UNCHANGED <<nodes, out, counts, exc, base, visited, session, data, runs, outcome>>

\* display_tree_structure has returned, or its exception ends the script run
AfterDisplay ==
    /\ pc = "in_display" /\ status \in {"returned", "raised"}
    /\ pc' = IF status = "raised" THEN "crashed" ELSE "tab_json"
    /\ page' = IF status = "raised" THEN Append(page, Elem("exception", exc)) ELSE page
    /\ UNCHANGED <<travVars, session, data, runs, outcome>>

\* render_raw_json()
RenderRawJson ==
    /\ pc = "tab_json"
    /\ page' = page \o <<Elem("subheader", "Raw JSON Data")>>
          \o (IF Truthy(data.tree) /\ session.show_json
              THEN <<Elem("code", "json"),
                     Elem("download", session.selected_app \o "_accessibility.json")>>
              ELSE IF ~session.show_json
              THEN <<Elem("info", "Enable 'Show raw JSON' in the sidebar")>>
              ELSE <<Elem("warning", "No JSON data available")>>)
    /\ pc' = "tab_summary"
    /\ UNCHANGED <<travVars, session, data, runs, outcome>>

\* render_tab_summary(): count_elements(tree) when tree
RenderTabSummary ==
    /\ pc = "tab_summary"
    /\ IF Truthy(data.tree)
       THEN /\ page' = Append(page, Elem("subheader", "Application Summary"))
            /\ call' = Call("count", data.tree, 0, 0, TRUE)
            /\ stack' = <<Frame("count", data.tree, 0, 0)>>
            /\ counts' = CountsInit([none |-> TRUE, d |-> <<>>])
            /\ base' = <<>> /\ visited' = <<data.tree>>
            /\ status' = "running"
            /\ pc' = "in_count"
       ELSE /\ page' = page \o <<Elem("subheader", "Application Summary"),
                                 Elem("warning", "No summary data available")>>
            /\ pc' = "footer"
            /\ UNCHANGED <<call, stack, counts, base, visited, status>>
    /\ UNCHANGED <<nodes, out, exc, session, data, runs, outcome>>

\* render_tab_summary() after count_elements: the metrics, the role lines
\* (written here in no particular order) and the chart; or the exception
\* of count_elements ends the script run.
AfterCount ==
    /\ pc = "in_count" /\ status \in {"returned", "raised"}
    /\ IF status = "raised"
       THEN /\ page' = Append(page, Elem("exception", exc))
            /\ pc' = "crashed"
       ELSE /\ page' = page
                \o <<Elem("metric", "Total Elements " \o ToString(SumValues(counts))),
                     Elem("metric", "Unique Roles " \o ToString(Cardinality(DOMAIN counts)))>>
                \o Opt(Truthy(data.screenshot), Elem("metric", "Screenshot Size"))
                \o Opt(Cardinality(DOMAIN counts) > 1, Elem("bar_chart", "Element Distribution"))
            /\ pc' = "footer"
    /\ UNCHANGED <<travVars, session, data, runs, outcome>>

\* render_footer()
RenderFooter ==
    /\ pc = "footer"
    /\ page' = Append(page, Elem("markdown", "Built by Tushar"))
    /\ pc' = "done"
    /\ UNCHANGED <<travVars, session, data, runs, outcome>>

AppInit ==
    /\ nodes = <<>>
    /\ stack = <<>> /\ out = <<>> /\ counts = <<>>
    /\ status = "idle" /\ exc = ""
    /\ call = NoCall /\ base = <<>> /\ visited = <<>>
    /\ pc = "start"
    /\ session = NoSession /\ data = NoData /\ page = <<>> /\ runs = 0
    /\ outcome = "none"

AppNext ==
    \/ FirstLoad
    \/ UserInput
    \/ Rerun
    \/ Main
    \/ RenderSidebar
    \/ AutoRefresh
    \/ RenderMainContent
    \/ CaptureNoBundle
    \/ CaptureRaises
    \/ CaptureSucceeds
    \/ ShowResult
    \/ RenderTabScreenshots
    \/ RenderTabTree
    \/ AfterDisplay
    \/ RenderRawJson
    \/ RenderTabSummary
    \/ AfterCount
    \/ RenderFooter
    \/ DisplayEnter
    \/ DisplayNextChild
    \/ CountEnter
    \/ CountNextChild

AppSpec == AppInit /\ [][AppNext]_vars

---------------------------------------------------------------------------
(* The two functions called directly on every tree of Heaps.              *)

\* The caller is done with what the call returned or raised.
Discard ==
    /\ pc = "off" /\ status \in {"returned", "raised"}
    /\ status' = "idle" /\ exc' = ""
    /\ call' = NoCall
    /\ stack' = <<>> /\ out' = <<>> /\ counts' = <<>> /\ base' = <<>> /\ visited' = <<>>
    /\ UNCHANGED <<nodes, appVars>>

Init ==
    /\ nodes \in Heaps
    /\ stack = <<>> /\ out = <<>> /\ counts = <<>>
    /\ status = "idle" /\ exc = ""
    /\ call = NoCall /\ base = <<>> /\ visited = <<>>
    /\ pc = "off"
    /\ session = NoSession /\ data = NoData /\ page = <<>> /\ runs = 0
    /\ outcome = "none"

Next ==
    \/ CallDisplay
    \/ CallCount
    \/ CallCountAgain
    \/ Discard
    \/ DisplayEnter
    \/ DisplayNextChild
    \/ CountEnter
    \/ CountNextChild

Spec == Init /\ [][Next]_vars

---------------------------------------------------------------------------
(* What the claims speak of, defined on the tree itself and not by the     *)
(* traversal.                                                              *)

ListElems(v) == IF v.t = "list" THEN {v.l[j] : j \in 1..Len(v.l)} ELSE {}

RECURSIVE Under(_)
Under(k) ==
    {k} \cup UNION {Under(c.i) : c \in {x \in ListElems(nodes[k]["children"]) : IsDict(x)}}

NodesOf(v) == IF IsDict(v) THEN Under(v.i) ELSE {}

RoleOf(k) == IF nodes[k]["role"] = Absent THEN "Unknown" ELSE nodes[k]["role"].s

RoleCount(v, r) == Cardinality({k \in NodesOf(v) : RoleOf(k) = r})

\* A tree of dict nodes: 'children' is absent or a list of nodes.
WellFormed(v) ==
    /\ IsDict(v)
    /\ \A k \in NodesOf(v) :
          \/ nodes[k]["children"] = Absent
          \/ /\ nodes[k]["children"].t = "list"
             /\ \A x \in ListElems(nodes[k]["children"]) : IsDict(x)

Expanders == Cardinality({j \in 1..Len(out) : out[j].kind = "expander"})

Returned(fn) == status = "returned" /\ call.fn = fn

---------------------------------------------------------------------------
\* C1: count_elements called with no accumulator on a tree of dict nodes
\* returns normally, and the mapping it returns has exactly the roles of the
\* tree as keys ("Unknown" for a node without 'role'), each with the number of
\* nodes of that role; the values sum to the number of nodes.
C1_CountByRole ==
    (call.fn = "count" /\ call.no_acc /\ WellFormed(call.tree)) =>
        /\ status # "raised"
        /\ status = "returned" =>
              /\ DOMAIN counts = {RoleOf(k) : k \in NodesOf(call.tree)}
              /\ \A r \in DOMAIN counts : counts[r] = RoleCount(call.tree, r)
              /\ SumValues(counts) = Cardinality(NodesOf(call.tree))

C1_Witness ==
    /\ Returned("count") /\ call.no_acc /\ call.tree = VRef(1)
    /\ WellFormed(call.tree)
    /\ Cardinality(NodesOf(call.tree)) = 3
    /\ "Unknown" \in DOMAIN counts /\ counts["Unknown"] = 2
    /\ "Button" \in DOMAIN counts

\* C2: display_tree_structure(T, max_depth=0, current_depth=0) emits exactly
\* one section, the root's expander, whatever children T has.
C2_DepthZeroOneSection ==
    (Returned("display") /\ call.tree = VRef(1)
        /\ call.max_depth = 0 /\ call.current_depth = 0) => Expanders = 1

\* C3: display_tree_structure emits nothing and raises nothing when the node
\* is None or current_depth > max_depth (a negative max_depth included): the
\* call returns from its first frame.
C3_SilentTerminalCase ==
    (call.fn = "display"
        /\ (call.tree = VNone \/ call.current_depth > call.max_depth)) =>
        /\ status # "raised"
        /\ out = <<>>
        /\ Len(stack) <= 1

C3_Witness ==
    /\ Returned("display") /\ call.tree = VRef(1)
    /\ call.max_depth = -1 /\ call.current_depth = 0
    /\ nodes[1]["children"] # Absent
    /\ out = <<>>

\* C4: a node without 'role' is a node of role "Unknown" for both traversals:
\* display_tree_structure (current_depth <= max_depth) emits a section
\* labelled "Unknown" for it, count_elements adds 1 to the count of
\* "Unknown"; a node with no fields at all included.
C4_NoRoleIsUnknown ==
    /\ (Returned("display") /\ IsDict(call.tree)
            /\ call.current_depth <= call.max_depth
            /\ nodes[call.tree.i]["role"] = Absent) =>
          /\ out # <<>>
          /\ out[1].kind = "expander"
          /\ out[1].text \in {"Unknown"} \cup
                {"Unknown - " \o t.s : t \in {x \in TitleChoices : x.t = "str"}}
    /\ (Returned("count") /\ IsDict(call.tree) /\ Len(visited) = 1
            /\ nodes[call.tree.i]["role"] = Absent) =>
          Lookup(counts, "Unknown") >= Lookup(base, "Unknown") + 1

\* A value that is present and not empty (0 and False are values).
NonEmpty(v) == v \notin {Absent, VNone, VStr(""), VList(<<>>)}

\* C5: in the section of a node the 'Value' line is shown whenever the value
\* is present and non-empty, except when str(value) equals the title.
C5_ValueLine ==
    (Returned("display") /\ IsDict(call.tree) /\ out # <<>>) =>
        LET d == nodes[call.tree.i]
            title == IF d["title"].t = "str" THEN d["title"].s ELSE ""
        IN  (\E j \in 1..Len(out) : out[j] = Text("Value: " \o PyStr(d["value"])))
                <=> (NonEmpty(d["value"]) /\ PyStr(d["value"]) # title)

\* C6: neither traversal ends in an error, whatever fields the nodes carry,
\* 'children' that is None or holds elements that are not nodes included.
C6_NoError == status # "raised"

\* Nodes of role r under the roots visited, each visit counted.
VisitedRoleCount(r) ==
    Cardinality({p \in (1..Len(visited)) \X DOMAIN nodes :
                    p[2] \in NodesOf(visited[p[1]]) /\ RoleOf(p[2]) = r})

\* C7: count_elements adds to the accumulator it is given: after the calls
\* that threaded one accumulator over the roots visited, every key holds
\* its value in the accumulator first handed in (0 if absent) plus the
\* number of nodes of that role under each root visited, in whatever order
\* the roots came; no other key appears.
C7_AccumulatorAdds ==
    Returned("count") =>
        /\ DOMAIN counts = DOMAIN base \cup
              UNION {{RoleOf(k) : k \in NodesOf(visited[j])} : j \in 1..Len(visited)}
        /\ \A r \in DOMAIN counts :
              counts[r] = Lookup(base, r) + VisitedRoleCount(r)

C7_Witness ==
    /\ Returned("count") /\ base = Preset
    /\ Len(visited) = 2 /\ visited[1] # visited[2]
    /\ counts["Button"] > 2 /\ counts["Link"] = 1
    /\ "Window" \in DOMAIN counts

\* C8: no step of either traversal changes a node or a children sequence;
\* a step of count_elements changes nothing but the accumulator, a step of
\* display_tree_structure leaves the accumulator alone.
C8_TreeNotMutated ==
    [][/\ nodes' = nodes
       /\ (status = "running" /\ stack # <<>> /\ Top.fn = "count") => out' = out
       /\ (status = "running" /\ stack # <<>> /\ Top.fn = "display") => counts' = counts
      ]_vars

C8_Witness ==
    /\ Returned("count") /\ Len(visited) = 2
    /\ Len(nodes) = 3 /\ call.tree = VRef(1)
    /\ nodes[1]["role"] # Absent

HasElem(kind) == \E j \in 1..Len(page) : page[j].kind = kind

\* C9: with 'Auto refresh (5s)' ticked and an app selected, every script run
\* re-acquires the accessibility data and renders the main content before
\* it ends.
C9_AutoRefreshRenders ==
    (pc \in {"rerun", "done", "crashed"} /\ session.auto_refresh
        /\ session.selected_app # "") =>
        /\ outcome # "none"
        /\ \E j \in 1..Len(page) :
              page[j] = Elem("header", "App: '" \o session.selected_app \o "'")

\* C10: every failure of the capture step (no bundle, or an exception with
\* any message, the empty one included) yields tree, screenshot and
\* segmented all None with the message; render_main_content then shows the
\* error and none of the four tabs, and the tabs and the two traversals are
\* reached only when the capture succeeded.
C10_CaptureFailureShown ==
    /\ outcome \in {"no_bundle", "raised"} =>
          /\ data.tree = VNone /\ data.screenshot = VNone /\ data.segmented = VNone
          /\ data.error.t = "str"
          /\ pc \notin {"capture", "captured"} => (HasElem("error") /\ ~HasElem("tabs"))
    /\ HasElem("tabs") => outcome = "ok"
    /\ pc \in {"in_display", "in_count"} => outcome = "ok"

=============================================================================
